---------------------------- MODULE Spec2Model ----------------------------
(***************************************************************************)
(* A model of review.py, the Mercurial extension that wraps 'hg push' to   *)
(* create a code review on Kiln.  One invocation of push_with_review is    *)
(* modelled as a state machine with one step per interaction with a        *)
(* collaborator (the Kiln API, the repository, the console, the wrapped    *)
(* push).  Strings are sequences of one-character strings, so that         *)
(* lower-casing, trimming, splitting and substring search are computed.    *)
(***************************************************************************)
EXTENDS Integers, Sequences, FiniteSets, TLC

(***************************************************************************)
(* Bounds of the model.                                                    *)
(***************************************************************************)
\* the largest number of --rr flags on one command line
MaxRR == 2
\* the number of changesets of the local repository a revision range or an
\* outgoing set may select from
MaxRevs == 2

(***************************************************************************)
(* Python string operations.                                               *)
(***************************************************************************)
UpperChars == <<"A", "B", "D", "K", "P", "T">>
LowerChars == <<"a", "b", "d", "k", "p", "t">>

\* str.lower() on one character
LowerChar(c) ==
    IF \E i \in 1..Len(UpperChars) : UpperChars[i] = c
    THEN LowerChars[CHOOSE i \in 1..Len(UpperChars) : UpperChars[i] = c]
    ELSE c

\* str.lower()
Lower(s) == [i \in 1..Len(s) |-> LowerChar(s[i])]

\* the 'in' operator on strings: t occurs in s as a contiguous substring
Contains(s, t) ==
    \E i \in 0..(Len(s) - Len(t)) :
        \A j \in 1..Len(t) : s[i + j] = t[j]

\* str.strip(): drop the white space at both ends
Strip(s) ==
    LET idx == {i \in 1..Len(s) : s[i] # " "}
    IN  IF idx = {} THEN <<>>
        ELSE LET lo == CHOOSE i \in idx : \A j \in idx : i <= j
                 hi == CHOOSE i \in idx : \A j \in idx : j <= i
             IN  SubSeq(s, lo, hi)

\* str.split(','): the fields between the commas, empty fields kept
RECURSIVE Split(_)
Split(s) ==
    LET commas == {i \in 1..Len(s) : s[i] = ","}
    IN  IF commas = {} THEN <<s>>
        ELSE LET c == CHOOSE i \in commas : \A j \in commas : i <= j
             IN  <<SubSeq(s, 1, c - 1)>> \o Split(SubSeq(s, c + 1, Len(s)))

\* the elements of a list, as a set
Range(f) == {f[i] : i \in DOMAIN f}

\* dict access: o.get(k) is present and true in a boolean context
Has(o, k) == k \in DOMAIN o
\* ... for a string or list value (None, '' and [] are false)
Truthy(o, k) == Has(o, k) /\ o[k] # <<>>
\* ... for a flag
TruthyFlag(o, k) == Has(o, k) /\ o[k] = TRUE
\* dict.pop(k, None): the mapping left behind
Pop(o, k) == [x \in DOMAIN o \ {k} |-> o[x]]
\* d[k] = v
Put(o, k, v) == [x \in DOMAIN o \cup {k} |-> IF x = k THEN v ELSE o[x]]
EmptyDict == [x \in {} |-> <<>>]

(***************************************************************************)
(* The values one invocation is run on.  None is the empty option <<>>;    *)
(* an optional string is <<>> or <<s>>.                                    *)
(***************************************************************************)
s_none == <<"n", "o", "n", "e">>
s_tom == <<"t", "o", "m">>
s_dickAt == <<"d", "i", "c", "k", "@">>
s_Dick == <<" ", "D", "i", "c", "k">>
s_zed == <<"z", "e", "d">>
s_tomComma == <<"t", "o", "m", ",">>
s_tip == <<"t", "i", "p">>
s_T == <<"T">>
s_C == <<"C">>
s_E == <<"E">>
s_kiln == <<"k", "i", "l", "n">>
s_Kiln == <<"K", "i", "l", "n">>
s_nowhere == <<"n", "o">>
s_default == <<"d", "e", "f", "a", "u", "l", "t">>
s_defaultPush == s_default \o <<"-", "p", "u", "s", "h">>
s_code == <<"/", "c", "o", "d", "e", "/">>
s_slash == <<"/">>
s_prefix == <<"K">>
s_user == <<"u">>
s_password == <<"p">>
s_token == <<"t", "k">>

\* the entries a --rr flag may carry
RREntries == {s_none, s_tom, s_dickAt, s_Dick, s_zed, s_tomComma}

RECURSIVE SeqsUpTo(_, _)
SeqsUpTo(S, n) ==
    IF n = 0 THEN {<<>>}
    ELSE LET shorter == SeqsUpTo(S, n - 1)
         IN  shorter \cup {Append(q, x) : q \in shorter, x \in S}

\* the options mercurial's dispatcher hands over: push's own flags (force
\* stands for them) and the five options uisetup registers
OptKeys == {"force", "rr", "rrev", "rtitle", "rcomment", "reditor"}
MakeOpts(rr, rrev, rtitle, rcomment, reditor) ==
    [k \in OptKeys |->
        CASE k = "force" -> TRUE
          [] k = "rr" -> rr
          [] k = "rrev" -> rrev
          [] k = "rtitle" -> rtitle
          [] k = "rcomment" -> rcomment
          [] k = "reditor" -> reditor]

\* the option maps over the given --rr lists; a caller other than the
\* dispatcher may pass editor=True itself
OptsOver(rrlists) ==
    LET dispatched == {MakeOpts(rr, rrev, t, c, e) :
                          rr \in rrlists, rrev \in {<<>>, <<s_tip>>},
                          t \in {<<>>, s_T}, c \in {<<>>, s_C}, e \in BOOLEAN}
    IN  dispatched \cup {Put(o, "editor", TRUE) : o \in {d \in dispatched : ~d["reditor"]}}

\* the positional arguments of hg push
ArgsChoices == {<<>>, <<s_kiln>>, <<s_kiln, s_nowhere>>}

\* the [auth] section of the hg configuration
ConfigKeys == {"kiln.prefix", "kiln.username", "kiln.password"}
FullConfig ==
    [k \in ConfigKeys |->
        CASE k = "kiln.prefix" -> s_prefix
          [] k = "kiln.username" -> s_user
          [] k = "kiln.password" -> s_password]
ConfigChoices == {FullConfig} \cup {Pop(FullConfig, k) : k \in ConfigKeys}

\* canonical URL of a repository of the Kiln project hierarchy
RepoUrl(prefix, r) ==
    prefix \o s_code \o r.sProjectSlug \o s_slash \o r.sGroupSlug \o s_slash \o r.sSlug

Repo(slug, ix) ==
    [sProjectSlug |-> <<"P">>, sGroupSlug |-> <<"g">>, sSlug |-> slug, ixRepo |-> ix]
repo_a == Repo(<<"a">>, 10)
repo_B == Repo(<<"B">>, 11)
repo_A == Repo(<<"A">>, 12)

\* the [paths] section: a list of (alias, url) pairs
PathsChoices ==
    { <<>>,
      << <<s_default, RepoUrl(s_prefix, repo_a)>> >>,
      << <<s_default, RepoUrl(s_prefix, repo_a)>>,
         <<s_defaultPush, RepoUrl(s_prefix, repo_B)>>,
         <<s_Kiln, RepoUrl(s_prefix, repo_B)>> >> }

\* [paths] sections whose aliases collide once lower-cased (the later pair
\* wins), and one with default-push alone
PathsCollisions ==
    { << <<<<"D">> \o Tail(s_default), RepoUrl(s_prefix, repo_B)>>,
         <<s_default, RepoUrl(s_prefix, repo_a)>> >>,
      << <<s_Kiln, RepoUrl(s_prefix, repo_a)>>,
         <<s_kiln, RepoUrl(s_prefix, repo_B)>> >>,
      << <<s_defaultPush, RepoUrl(s_prefix, repo_B)>> >> }

\* what the Project call may answer: a list of projects, each a list of
\* repository groups, each a list of repositories
Hierarchies ==
    { <<>>,
      << [repoGroups |-> << [repos |-> <<repo_a, repo_B>>] >>] >>,
      << [repoGroups |-> << [repos |-> <<repo_A>>], [repos |-> <<repo_a>>] >>] >> }

\* what the Person call may answer
Person(name, email, ix) == [sName |-> name, sEmail |-> email, ixPerson |-> ix]
p_tom == Person(<<"T", "o", "m", " ", "A">>, <<"t", "o", "m", "@", "x">>, 1)
p_dick == Person(<<"D", "i", "c", "k", " ", "B">>, <<"d", "i", "c", "k", "@", "x">>, 2)
p_tomas == Person(<<"T", "o", "m", "a", "s">>, <<"t", "s", "@", "x">>, 3)
p_alt == Person(<<"T", " ", "A", "l", "t">>, <<"T", "o", "m", "@", "x">>, 4)
Directories ==
    { <<p_tom, p_dick>>, <<p_tomas, p_dick, p_tom>>, <<p_dick, p_tom, p_alt>> }

\* the changesets of the local repository: revision number -> node, description
HexDigits == <<"0", "1", "2", "3", "4", "5", "6", "7", "8", "9", "a", "b", "c", "d", "e", "f">>
Revs == 1..MaxRevs
\* a 40-digit node id
NodeHex(rev) == [i \in 1..40 |-> HexDigits[((rev * i) % 16) + 1]]
Description(rev) == <<"d", HexDigits[(rev % 16) + 1]>>

(***************************************************************************)
(* _get_repo_to_push_to                                                    *)
(***************************************************************************)
\* dict((x.lower(), y.lower()) for (x, y) in configitems('paths')): a later
\* pair replaces an earlier one of the same lower-cased name
ReposDict(items) ==
    [n \in {Lower(items[i][1]) : i \in DOMAIN items} |->
        LET last == CHOOSE i \in DOMAIN items :
                        /\ Lower(items[i][1]) = n
                        /\ \A j \in DOMAIN items : Lower(items[j][1]) = n => j <= i
        IN  Lower(items[last][2])]

\* mutant: a destination that is no alias falls back to the defaults
get_repo_to_push_to_FallsBack(items, preferred_repo) ==
    LET repos == ReposDict(items)
    IN  IF preferred_repo # <<>> /\ preferred_repo[1] # <<>>
           /\ Lower(preferred_repo[1]) \in DOMAIN repos
        THEN <<repos[Lower(preferred_repo[1])]>>
        ELSE IF s_defaultPush \in DOMAIN repos THEN <<repos[s_defaultPush]>>
        ELSE IF s_default \in DOMAIN repos THEN <<repos[s_default]>>
        ELSE <<>>

\* the URL to push to, or None (<<>>); preferred_repo is None or <<dest>>
get_repo_to_push_to(items, preferred_repo) ==
    LET repos == ReposDict(items)
    IN  IF preferred_repo # <<>> /\ preferred_repo[1] # <<>>
        THEN IF Lower(preferred_repo[1]) \in DOMAIN repos
             THEN <<repos[Lower(preferred_repo[1])]>>
             ELSE <<>>
        ELSE IF s_defaultPush \in DOMAIN repos THEN <<repos[s_defaultPush]>>
        ELSE IF s_default \in DOMAIN repos THEN <<repos[s_default]>>
        ELSE <<>>

(***************************************************************************)
(* _get_reviewers: normalisation and matching                              *)
(***************************************************************************)
\* the set all_reviewers: every comma-separated field, stripped, lower-cased
NormalizeReviewers(reviewers) ==
    UNION { {Lower(Strip(f)) : f \in Range(Split(reviewers[i]))} : i \in DOMAIN reviewers }

\* mutant: a person record matches by its name alone
Matches_NameOnly(reviewer, person) ==
    Contains(Lower(person.sName), reviewer)

\* does the person record match the (normalised) reviewer name
Matches(reviewer, person) ==
    \/ Contains(Lower(person.sName), reviewer)
    \/ Contains(Lower(person.sEmail), reviewer)

\* candidate_reviewers: the matching records, in directory order
RECURSIVE CandidateReviewers(_, _)
CandidateReviewers(reviewer, people) ==
    IF people = <<>> THEN <<>>
    ELSE (IF Matches(reviewer, Head(people)) THEN <<Head(people)>> ELSE <<>>)
         \o CandidateReviewers(reviewer, Tail(people))

\* the orders in which dict.values() may list a dict's values
ValueLists(d) ==
    {q \in [1..Cardinality(DOMAIN d) -> Range(d)] : Range(q) = Range(d)}

(***************************************************************************)
(* _get_repo_index_for_repo_url                                            *)
(***************************************************************************)
RECURSIVE Flatten(_)
Flatten(lists) ==
    IF lists = <<>> THEN <<>> ELSE Head(lists) \o Flatten(Tail(lists))

\* the repositories in the order the three nested loops visit them
ReposInOrder(all_projects) ==
    Flatten([i \in DOMAIN all_projects |->
        Flatten([j \in DOMAIN all_projects[i].repoGroups |->
            all_projects[i].repoGroups[j].repos])])

\* mutant: the last matching repository wins
get_repo_index_for_repo_url_LastMatch(url_prefix, all_projects, repo_url) ==
    LET rs == ReposInOrder(all_projects)
        hits == {i \in DOMAIN rs : repo_url # <<>> /\
                    Lower(RepoUrl(url_prefix, rs[i])) = Lower(repo_url[1])}
    IN  IF rs # <<>> /\ repo_url = <<>>
        THEN [exc |-> "AttributeError", ixRepo |-> 0]
        ELSE IF hits = {}
        THEN [exc |-> "Abort", ixRepo |-> 0]
        ELSE [exc |-> "", ixRepo |-> rs[CHOOSE i \in hits : \A j \in hits : i >= j].ixRepo]

\* the outcome of the loops: the first match's ixRepo, or the exception;
\* repo_url is None (<<>>) or <<url>>, and None.lower() is an AttributeError
get_repo_index_for_repo_url(url_prefix, all_projects, repo_url) ==
    LET rs == ReposInOrder(all_projects)
        hits == {i \in DOMAIN rs : repo_url # <<>> /\
                    Lower(RepoUrl(url_prefix, rs[i])) = Lower(repo_url[1])}
    IN  IF rs # <<>> /\ repo_url = <<>>
        THEN [exc |-> "AttributeError", ixRepo |-> 0]
        ELSE IF hits = {}
        THEN [exc |-> "Abort", ixRepo |-> 0]
        ELSE [exc |-> "", ixRepo |-> rs[CHOOSE i \in hits : \A j \in hits : i <= j].ixRepo]

(***************************************************************************)
(* The collaborators' answers                                              *)
(***************************************************************************)
\* _slurp either raises Abort (URLError) or returns the parsed answer
SlurpOutcomes == {"URLError", "answer"}

\* scmutil.revrange(repo, revs): the revisions the specs expand to, in the
\* order of the range (i:j, ascending or descending), possibly none at all
RevLists ==
    {<<>>} \cup {[k \in 1..(MaxRevs - i + 1) |-> i + k - 1] : i \in Revs}
           \cup {[k \in 1..MaxRevs |-> MaxRevs - k + 1]}

\* repo[rev].hex()[:12] and mercurial.node.hex(n)[:12]
ShortHash(rev) == SubSeq(NodeHex(rev), 1, 12)
ShortHashes(revlist) == [k \in DOMAIN revlist |-> ShortHash(revlist[k])]

\* the wrapped push raises its own error or returns its status
PushOutcomes ==
    {[raised |-> TRUE, value |-> 0], [raised |-> FALSE, value |-> 0],
     [raised |-> FALSE, value |-> 1]}

\* the JSON answers of Review/Create: null, {}, an error report, a review
ReviewResponses ==
    {[null |-> TRUE, keys |-> {}, ixReview |-> 0],
     [null |-> FALSE, keys |-> {}, ixReview |-> 0],
     [null |-> FALSE, keys |-> {"errors"}, ixReview |-> 0],
     [null |-> FALSE, keys |-> {"ixReview"}, ixReview |-> 7]}

\* the text the editor hands back: the default kept, or new text
EditedTexts(default_comment) == {default_comment, s_E}

(***************************************************************************)
(* The state of one invocation of push_with_review                         *)
(***************************************************************************)
VARIABLES
    pc,                       \* where the invocation stands
    args, opts0, config, paths, \* what it was entered with
    opts,                     \* **opts, as the pops leave it
    dest, auth_token, review_params, changesets, people, reviewers,
    all_people, todo, disambiguated_reviewers,  \* locals of _get_reviewers
    calls,                    \* the remote calls and pushes made, in order
    prompts,                  \* the reviewer names promptchoice was asked about
    edits,                    \* the default texts ui.edit was opened on
    ui_out,                   \* what ui.warn / ui.status printed
    pushed,                   \* <<>> or what origfn was handed and answered
    submitted,                \* <<>> or the params posted to Review/Create
    review_status,            \* <<>> or what Review/Create answered
    repo_url_to_push_to,      \* None until line 297, then <<None or <<url>>>>
    all_projects,             \* <<>> or <<what the Project call answered>>
    result                    \* how the invocation ended

vars == <<pc, args, opts0, config, paths, opts, dest, auth_token, review_params,
          changesets, people, reviewers, all_people, todo, disambiguated_reviewers,
          calls, prompts, edits, ui_out, pushed, submitted, review_status, repo_url_to_push_to,
          all_projects, result>>

\* the variables no step changes
entry == <<args, opts0, config, paths>>
\* what only the review call sets
posted == <<submitted, review_status>>
\* what only the repository lookup sets
located == <<repo_url_to_push_to, all_projects>>
\* the locals of _get_reviewers
resolver == <<all_people, todo, disambiguated_reviewers>>

NoResult == [kind |-> "none", exc |-> "", msg |-> "", value |-> 0, arg |-> <<>>]
Return(v) == [kind |-> "return", exc |-> "", msg |-> "", value |-> v, arg |-> <<>>]
Raise(exc, msg, arg) == [kind |-> "raise", exc |-> exc, msg |-> msg, value |-> 0, arg |-> arg]
Say(msg, val) == [msg |-> msg, val |-> val]

\* the invocations explored: every combination of arguments, configuration,
\* aliases and options over the short --rr lists; every --rr list over the
\* full set of entries under the plainest of the other inputs; and the
\* colliding aliases under the plainest options
Invocations ==
    [args : ArgsChoices, opts : OptsOver(SeqsUpTo({s_none, s_tom}, MaxRR)),
     config : ConfigChoices, paths : PathsChoices]
    \cup [args : {<<>>},
         opts : {MakeOpts(rr, <<s_tip>>, <<>>, <<>>, FALSE) : rr \in SeqsUpTo(RREntries, MaxRR)},
         config : {FullConfig},
         paths : {<< <<s_default, RepoUrl(s_prefix, repo_a)>> >>}]
    \cup [args : {<<>>, <<s_kiln>>, << <<>> >>},   \* the last: hg push ''
         opts : {MakeOpts(<<s_tom>>, <<s_tip>>, <<>>, <<>>, FALSE)},
         config : {FullConfig},
         paths : PathsCollisions]

Init ==
    /\ pc = "start"
    /\ \E inv \in Invocations :
        /\ args = inv.args
        /\ opts0 = inv.opts
        /\ opts = inv.opts
        /\ config = inv.config
        /\ paths = inv.paths
    /\ dest = <<>>
    /\ auth_token = <<>>
    /\ review_params = EmptyDict
    /\ changesets = <<>>
    /\ people = <<>>
    /\ reviewers = <<>>
    /\ all_people = <<>>
    /\ todo = {}
    /\ disambiguated_reviewers = EmptyDict
    /\ calls = <<>>
    /\ prompts = <<>>
    /\ edits = <<>>
    /\ ui_out = <<>>
    /\ pushed = <<>>
    /\ submitted = <<>>
    /\ review_status = <<>>
    /\ repo_url_to_push_to = <<>>
    /\ all_projects = <<>>
    /\ result = NoResult

\* the invocation ends, returning or raising
Finish(r) == pc' = "done" /\ result' = r

\* mutant: push's own flags are lost on the way to the wrapped push
origfn_DropsFlags(a, o, outcome) ==
    /\ calls' = Append(calls, "push")
    /\ pushed' = Append(pushed, [args |-> a, opts |-> Pop(o, "force"), outcome |-> outcome])

\* origfn(ui, repo, *args, **opts): what the wrapped push is handed, and its answer
origfn(a, o, outcome) ==
    /\ calls' = Append(calls, "push")
    /\ pushed' = Append(pushed, [args |-> a, opts |-> o, outcome |-> outcome])

\* mutant: the option compared with the string 'none', never equal to a list
IsBypass_ComparesString == FALSE

\* opts.get('rr') == ['none']
IsBypass == Has(opts, "rr") /\ opts["rr"] = <<s_none>>

\* mutant: the bypass returns 1 whatever the push returned
Bypass_ReturnsOne ==
    /\ pc = "start"
    /\ IsBypass
    /\ \E outcome \in PushOutcomes :
        /\ origfn(args, opts, outcome)
        /\ Finish(IF outcome.raised THEN Raise("PushError", "push", <<>>) ELSE Return(1))
    /\ UNCHANGED <<args, opts0, config, paths, opts, dest, auth_token, review_params,
                   changesets, people, reviewers, all_people, todo,
                   disambiguated_reviewers, prompts, edits, ui_out, posted, located>>

\* lines 226-227: --rr none falls back onto the native push
Bypass ==
    /\ pc = "start"
    /\ IsBypass
    /\ \E outcome \in PushOutcomes :
        /\ origfn(args, opts, outcome)
        /\ Finish(IF outcome.raised THEN Raise("PushError", "push", <<>>)
                  ELSE Return(outcome.value))
    /\ UNCHANGED <<args, opts0, config, paths, opts, dest, auth_token, review_params,
                   changesets, people, reviewers, all_people, todo,
                   disambiguated_reviewers, prompts, edits, ui_out, posted, located>>

\* lines 229-236: no kiln.prefix, so print the instructions and return 0
ConfigMissing ==
    /\ pc = "start"
    /\ ~IsBypass
    /\ ~Has(config, "kiln.prefix")
    /\ ui_out' = ui_out \o [i \in 1..5 |-> Say("warn: hgrc instructions", i)]
    /\ Finish(Return(0))
    /\ UNCHANGED <<args, opts0, config, paths, opts, dest, auth_token, review_params,
                   changesets, people, reviewers, all_people, todo,
                   disambiguated_reviewers, calls, prompts, edits, pushed, posted, located>>

\* lines 239-242: more than one destination
TooManyDests ==
    /\ pc = "start"
    /\ ~IsBypass
    /\ Has(config, "kiln.prefix")
    /\ Len(args) > 1
    /\ Finish(Raise("Abort", "At most one dest should be specified.", <<>>))
    /\ UNCHANGED <<args, opts0, config, paths, opts, dest, auth_token, review_params,
                   changesets, people, reviewers, all_people, todo,
                   disambiguated_reviewers, calls, prompts, edits, ui_out, pushed,
                   posted, located>>

\* lines 239-245: dest is the one positional argument, or None
Begin ==
    /\ pc = "start"
    /\ ~IsBypass
    /\ Has(config, "kiln.prefix")
    /\ Len(args) <= 1
    /\ dest' = (IF args # <<>> THEN <<args[1]>> ELSE <<>>)
    /\ review_params' = EmptyDict
    /\ pc' = "login"
    /\ UNCHANGED <<args, opts0, config, paths, opts, auth_token, changesets, people,
                   reviewers, all_people, todo, disambiguated_reviewers, calls,
                   prompts, edits, ui_out, pushed, posted, located, result>>


\* lines 247-258: _get_authtoken, then the title and the comment
Login ==
    /\ pc = "login"
    /\ calls' = Append(calls, "Auth/Login")
    /\ \E answer \in SlurpOutcomes :
        IF answer = "URLError"
        THEN /\ Finish(Raise("Abort", "Error communicating with kilnhg: Auth/Login", <<>>))
             /\ UNCHANGED <<opts, auth_token, review_params>>
        ELSE /\ auth_token' = <<s_token>>
             /\ LET p1 == Put(review_params, "token", s_token)
                    p2 == IF Truthy(opts, "rtitle")
                          THEN Put(p1, "sTitle", opts["rtitle"]) ELSE p1
                    p3 == IF Truthy(opts, "rcomment")
                          THEN Put(p2, "sDescription", opts["rcomment"]) ELSE p2
                IN  review_params' = p3
             /\ opts' = Pop(Pop(opts, "rtitle"), "rcomment")
             /\ pc' = "revs"
             /\ UNCHANGED result
    /\ UNCHANGED <<entry, dest, changesets, people, reviewers, resolver, prompts,
                   edits, ui_out, pushed, posted, located>>

\* mutant: the reviewers are not required
SetRevs_ReviewersOptional(cs) ==
    /\ changesets' = cs
    /\ review_params' = Put(review_params, "revs", cs)
    /\ opts' = Pop(Pop(opts, "rrev"), "rr")
    /\ people' = (IF Has(opts, "rr") THEN opts["rr"] ELSE <<>>)
    /\ pc' = "person"
    /\ UNCHANGED result

\* lines 272-279: the changesets go into the request, then --rr is required
SetRevs(cs) ==
    /\ changesets' = cs
    /\ review_params' = Put(review_params, "revs", cs)
    /\ opts' = Pop(Pop(opts, "rrev"), "rr")
    /\ IF Truthy(opts, "rr")
       THEN /\ people' = opts["rr"]
            /\ pc' = "person"
            /\ UNCHANGED result
       ELSE /\ Finish(Raise("Abort", "Must specify at least one reviewer via -rr.", <<>>))
            /\ UNCHANGED people

\* lines 261-264: --rrev given, the changesets are those of the revision range
SelectRevs ==
    /\ pc = "revs"
    /\ Truthy(opts, "rrev")
    /\ \E revlist \in RevLists : SetRevs(ShortHashes(revlist))
    /\ UNCHANGED <<entry, dest, auth_token, reviewers, resolver, calls, prompts,
                   edits, ui_out, pushed, posted, located>>

\* lines 265-271: no --rrev, the changesets are the outgoing ones
SelectOutgoing ==
    /\ pc = "revs"
    /\ ~Truthy(opts, "rrev")
    /\ \E changeset_nodes \in RevLists :
        IF changeset_nodes = <<>>
        THEN /\ Finish(Raise("Abort", "No changesets found to push/review.", <<>>))
             /\ opts' = Pop(opts, "rrev")
             /\ UNCHANGED <<changesets, review_params, people>>
        ELSE SetRevs(ShortHashes(changeset_nodes))
    /\ UNCHANGED <<entry, dest, auth_token, reviewers, resolver, calls, prompts,
                   edits, ui_out, pushed, posted, located>>

\* lines 136-146: fetch the person records, normalise the reviewer names
FetchPeople ==
    /\ pc = "person"
    /\ calls' = Append(calls, "Person")
    /\ \E answer \in SlurpOutcomes :
        IF answer = "URLError"
        THEN /\ Finish(Raise("Abort", "Error communicating with kilnhg: Person", <<>>))
             /\ UNCHANGED resolver
        ELSE /\ \E directory \in Directories : all_people' = directory
             /\ todo' = NormalizeReviewers(people)
             /\ disambiguated_reviewers' = EmptyDict
             /\ pc' = "resolve"
             /\ UNCHANGED result
    /\ UNCHANGED <<entry, opts, dest, auth_token, review_params, changesets, people,
                   reviewers, prompts, edits, ui_out, pushed, posted, located>>

\* mutant: the picked record is filed under the reviewer name asked for
Accept_KeyedByName(reviewer, picked_reviewer) ==
    /\ disambiguated_reviewers' = Put(disambiguated_reviewers, reviewer, picked_reviewer)
    /\ todo' = todo \ {reviewer}
    /\ UNCHANGED <<all_people, pc, result>>

\* line 168: the picked record is filed under its sEmail
Accept(reviewer, picked_reviewer) ==
    /\ disambiguated_reviewers' =
           Put(disambiguated_reviewers, picked_reviewer.sEmail, picked_reviewer)
    /\ todo' = todo \ {reviewer}
    /\ UNCHANGED <<all_people, pc, result>>

\* mutant: a reviewer name nobody matches is skipped
NoReviewerFound_Skips ==
    /\ pc = "resolve"
    /\ \E reviewer \in todo :
        /\ CandidateReviewers(reviewer, all_people) = <<>>
        /\ todo' = todo \ {reviewer}
    /\ UNCHANGED <<entry, opts, dest, auth_token, review_params, changesets, people,
                   reviewers, all_people, disambiguated_reviewers, calls, prompts,
                   edits, ui_out, pushed, posted, located, pc, result>>

\* lines 154-156: nobody matches the reviewer name
NoReviewerFound ==
    /\ pc = "resolve"
    /\ \E reviewer \in todo :
        /\ CandidateReviewers(reviewer, all_people) = <<>>
        /\ Finish(Raise("Abort", "No reviewer found matching", reviewer))
    /\ UNCHANGED <<entry, opts, dest, auth_token, review_params, changesets, people,
                   reviewers, resolver, calls, prompts, edits, ui_out, pushed,
                   posted, located>>

\* mutant: the answer to the prompt indexes the whole directory
PickAmong_IndexesDirectory ==
    /\ pc = "resolve"
    /\ \E reviewer \in todo :
        LET candidate_reviewers == CandidateReviewers(reviewer, all_people)
        IN  /\ Len(candidate_reviewers) > 1
            /\ ui_out' = ui_out \o <<Say("status: Hmm...There are a few folks matching", reviewer)>>
                   \o [i \in DOMAIN candidate_reviewers |->
                          Say("status: choice", <<i, candidate_reviewers[i].sEmail>>)]
            /\ prompts' = Append(prompts, reviewer)
            /\ \E pick \in 0..(Len(candidate_reviewers) - 1) :
                   Accept(reviewer, all_people[pick + 1])
    /\ UNCHANGED <<entry, opts, dest, auth_token, review_params, changesets, people,
                   reviewers, calls, edits, pushed, posted, located>>

\* lines 157-165: several match, the user is asked which one is meant
PickAmong ==
    /\ pc = "resolve"
    /\ \E reviewer \in todo :
        LET candidate_reviewers == CandidateReviewers(reviewer, all_people)
        IN  /\ Len(candidate_reviewers) > 1
            /\ ui_out' = ui_out \o <<Say("status: Hmm...There are a few folks matching", reviewer)>>
                   \o [i \in DOMAIN candidate_reviewers |->
                          Say("status: choice", <<i, candidate_reviewers[i].sEmail>>)]
            /\ prompts' = Append(prompts, reviewer)
            /\ \E pick \in 0..(Len(candidate_reviewers) - 1) :
                   Accept(reviewer, candidate_reviewers[pick + 1])
    /\ UNCHANGED <<entry, opts, dest, auth_token, review_params, changesets, people,
                   reviewers, calls, edits, pushed, posted, located>>

\* lines 166-167: exactly one matches
PickOnly ==
    /\ pc = "resolve"
    /\ \E reviewer \in todo :
        LET candidate_reviewers == CandidateReviewers(reviewer, all_people)
        IN  /\ Len(candidate_reviewers) = 1
            /\ Accept(reviewer, candidate_reviewers[1])
    /\ UNCHANGED <<entry, opts, dest, auth_token, review_params, changesets, people,
                   reviewers, calls, prompts, edits, ui_out, pushed, posted, located>>

\* lines 170, 280-284: the records come back, their ids go into the request
ReviewersDone ==
    /\ pc = "resolve"
    /\ todo = {}
    /\ \E values \in ValueLists(disambiguated_reviewers) :
        /\ reviewers' = values
        /\ review_params' = Put(review_params, "ixReviewers",
                                [i \in DOMAIN values |-> values[i].ixPerson])
    /\ all_people' = <<>>
    /\ disambiguated_reviewers' = EmptyDict
    /\ opts' = Pop(opts, "editor")
    /\ pc' = (IF TruthyFlag(opts, "editor") THEN "edit" ELSE "project")
    /\ UNCHANGED <<entry, dest, auth_token, changesets, people, todo, calls, prompts,
                   edits, ui_out, pushed, posted, located, result>>

\* repo[rev].description() for a short hash of the repository
DescriptionOf(hash) == Description(CHOOSE rev \in Revs : ShortHash(rev) = hash)

RECURSIVE JoinLines(_)
JoinLines(texts) ==
    IF texts = <<>> THEN <<>>
    ELSE IF Len(texts) = 1 THEN texts[1]
    ELSE texts[1] \o <<"\n">> \o JoinLines(Tail(texts))

\* lines 285-295: the editor opens on the comment, or on the descriptions
Edit ==
    /\ pc = "edit"
    /\ LET default_comment ==
               IF Has(review_params, "sDescription")
               THEN review_params["sDescription"]
               ELSE JoinLines([i \in DOMAIN changesets |-> DescriptionOf(changesets[i])])
       IN  /\ edits' = Append(edits, default_comment)
           /\ \E text \in EditedTexts(default_comment) :
                  review_params' = Put(review_params, "sDescription", text)
    /\ pc' = "project"
    /\ UNCHANGED <<entry, opts, dest, auth_token, changesets, people, reviewers,
                   resolver, calls, prompts, ui_out, pushed, posted, located, result>>

\* lines 297-299: the alias, then the Project call and the repository's id
LocateRepo ==
    /\ pc = "project"
    /\ repo_url_to_push_to' = <<get_repo_to_push_to(paths, dest)>>
    /\ calls' = Append(calls, "Project")
    /\ \E answer \in SlurpOutcomes :
        IF answer = "URLError"
        THEN /\ Finish(Raise("Abort", "Error communicating with kilnhg: Project", <<>>))
             /\ UNCHANGED <<review_params, all_projects>>
        ELSE \E hierarchy \in Hierarchies :
             LET found == get_repo_index_for_repo_url(config["kiln.prefix"], hierarchy,
                                                      repo_url_to_push_to'[1])
             IN  /\ all_projects' = <<hierarchy>>
                 /\ IF found.exc = ""
                    THEN /\ review_params' = Put(review_params, "ixRepo", found.ixRepo)
                         /\ pc' = "push"
                         /\ UNCHANGED result
                    ELSE /\ Finish(Raise(found.exc,
                                         IF found.exc = "Abort"
                                         THEN "No repository found matching"
                                         ELSE "'NoneType' object has no attribute 'lower'",
                                         repo_url_to_push_to'[1]))
                         /\ UNCHANGED review_params
    /\ UNCHANGED <<entry, opts, dest, auth_token, changesets, people, reviewers,
                   resolver, prompts, edits, ui_out, pushed, posted>>

\* mutant: the push is left out and the review is created straight away
Push_LeftOut ==
    /\ pc = "push"
    /\ pc' = "review"
    /\ UNCHANGED <<entry, opts, dest, auth_token, review_params, changesets, people,
                   reviewers, resolver, calls, prompts, edits, ui_out, pushed, posted, located,
                   result>>

\* mutant: the push's error is swallowed and the review is created all the same
Push_SwallowsError ==
    /\ pc = "push"
    /\ \E outcome \in PushOutcomes : origfn(args, opts, outcome)
    /\ pc' = "review"
    /\ UNCHANGED <<entry, opts, dest, auth_token, review_params, changesets, people,
                   reviewers, resolver, prompts, edits, ui_out, posted, located, result>>

\* mutant: the push is made before the repository's id is looked up
Push_BeforeLookup ==
    /\ pc = "project"
    /\ pushed = <<>>
    /\ \E outcome \in PushOutcomes : origfn(args, opts, outcome)
    /\ UNCHANGED <<entry, opts, dest, auth_token, review_params, changesets, people,
                   reviewers, resolver, prompts, edits, ui_out, posted, located, result, pc>>

\* mutant: the changesets pushed are taken off the request
Push_TrimsRequest ==
    /\ pc = "push"
    /\ \E outcome \in PushOutcomes :
        /\ origfn(args, opts, outcome)
        /\ IF outcome.raised
           THEN Finish(Raise("PushError", "push", <<>>))
           ELSE pc' = "review" /\ UNCHANGED result
    /\ review_params' = Put(review_params, "revs", <<>>)
    /\ UNCHANGED <<entry, opts, dest, auth_token, changesets, people,
                   reviewers, resolver, prompts, edits, ui_out, posted, located>>

\* line 302: first do the push; its error propagates, its status is dropped
Push ==
    /\ pc = "push"
    /\ \E outcome \in PushOutcomes :
        /\ origfn(args, opts, outcome)
        /\ IF outcome.raised
           THEN Finish(Raise("PushError", "push", <<>>))
           ELSE pc' = "review" /\ UNCHANGED result
    /\ UNCHANGED <<entry, opts, dest, auth_token, review_params, changesets, people,
                   reviewers, resolver, prompts, edits, ui_out, posted, located>>

\* line 306: assert review_status
ReviewStatusTrue(response) == ~response.null /\ response.keys # {}

\* mutant: a Review/Create call that cannot be made is tried once more
MakeReview_TriesAgain ==
    /\ pc = "review"
    /\ calls' = Append(calls, "Review/Create")
    /\ submitted' = Append(submitted, review_params)
    /\ \E answer \in SlurpOutcomes :
        IF answer = "URLError"
        THEN IF submitted = <<>>
             THEN UNCHANGED <<pc, result, ui_out, review_status>>
             ELSE /\ Finish(Raise("Abort", "Error communicating with kilnhg: Review/Create", <<>>))
                  /\ ui_out' = Append(ui_out, Say("status: Creating review...", <<>>))
                  /\ UNCHANGED review_status
        ELSE \E response \in ReviewResponses :
             /\ review_status' = <<response>>
             /\ IF ~ReviewStatusTrue(response)
                THEN /\ Finish(Raise("AssertionError", "Kiln API is returning None??", <<>>))
                     /\ ui_out' = Append(ui_out, Say("status: Creating review...", <<>>))
                ELSE IF "ixReview" \notin response.keys
                THEN /\ Finish(Return(0))
                     /\ ui_out' = ui_out \o <<Say("status: Creating review...", <<>>),
                                              Say("status: FAILED", response)>>
                ELSE /\ Finish(Return(1))
                     /\ ui_out' = ui_out \o <<Say("status: Creating review...", <<>>),
                                              Say("status: done!", <<>>),
                                              Say("status: review url",
                                                  <<config["kiln.prefix"], response.ixReview>>)>>
    /\ UNCHANGED <<entry, opts, dest, auth_token, review_params, changesets, people,
                   reviewers, resolver, prompts, edits, pushed, located>>

\* lines 304-312: then do the review
MakeReview ==
    /\ pc = "review"
    /\ calls' = Append(calls, "Review/Create")
    /\ submitted' = Append(submitted, review_params)
    /\ \E answer \in SlurpOutcomes :
        IF answer = "URLError"
        THEN /\ Finish(Raise("Abort", "Error communicating with kilnhg: Review/Create", <<>>))
             /\ ui_out' = Append(ui_out, Say("status: Creating review...", <<>>))
             /\ UNCHANGED review_status
        ELSE \E response \in ReviewResponses :
             /\ review_status' = <<response>>
             /\ IF ~ReviewStatusTrue(response)
                THEN /\ Finish(Raise("AssertionError", "Kiln API is returning None??", <<>>))
                     /\ ui_out' = Append(ui_out, Say("status: Creating review...", <<>>))
                ELSE IF "ixReview" \notin response.keys
                THEN /\ Finish(Return(0))
                     /\ ui_out' = ui_out \o <<Say("status: Creating review...", <<>>),
                                              Say("status: FAILED", response)>>
                ELSE /\ Finish(Return(1))
                     /\ ui_out' = ui_out \o <<Say("status: Creating review...", <<>>),
                                              Say("status: done!", <<>>),
                                              Say("status: review url",
                                                  <<config["kiln.prefix"], response.ixReview>>)>>
    /\ UNCHANGED <<entry, opts, dest, auth_token, review_params, changesets, people,
                   reviewers, resolver, prompts, edits, pushed, located>>

Next ==
    \/ Bypass
    \/ ConfigMissing
    \/ TooManyDests
    \/ Begin
    \/ Login
    \/ SelectRevs
    \/ SelectOutgoing
    \/ FetchPeople
    \/ NoReviewerFound
    \/ PickAmong
    \/ PickOnly
    \/ ReviewersDone
    \/ Edit
    \/ LocateRepo
    \/ Push
    \/ MakeReview

Spec == Init /\ [][Next]_vars

(***************************************************************************)
(* Properties                                                              *)
(***************************************************************************)
\* the invocation was entered with --rr none
EnteredBypass == Has(opts0, "rr") /\ opts0["rr"] = <<s_none>>
\* the number of pushes among the first i calls
PushesUpTo(i) == Cardinality({k \in 1..i : calls[k] = "push"})
Made(call) == \E i \in DOMAIN calls : calls[i] = call

\* C1: a Review/Create call is made only after the push was invoked and
\* has returned (without raising); never before a push, never without one.
C1_ReviewOnlyAfterPush ==
    \A i \in DOMAIN calls :
        calls[i] = "Review/Create" =>
            \E j \in 1..(i - 1) :
                calls[j] = "push" /\ ~pushed[PushesUpTo(j)].outcome.raised
C1_Witness ==
    /\ pc = "done"
    /\ ~EnteredBypass
    /\ calls = <<"Auth/Login", "Person", "Project", "push", "Review/Create">>

\* the errors raised while authenticating and gathering the parameters
GatheringFailures ==
    {"Error communicating with kilnhg: Auth/Login",
     "Error communicating with kilnhg: Person",
     "Error communicating with kilnhg: Project",
     "No reviewer found matching",
     "No repository found matching",
     "'NoneType' object has no attribute 'lower'",
     "No changesets found to push/review."}

\* C2: an invocation that ends with a failure of authentication or of
\* parameter gathering has never invoked the push nor posted a review.
C2_GatheringFailureBeforePush ==
    (result.kind = "raise" /\ result.msg \in GatheringFailures) =>
        /\ pc = "done"
        /\ pushed = <<>>
        /\ submitted = <<>>
        /\ ~Made("push")
        /\ ~Made("Review/Create")
C2_Witness ==
    /\ result.kind = "raise"
    /\ result.msg = "No repository found matching"
    /\ calls = <<"Auth/Login", "Person", "Project">>

\* C3: entered with --rr none, the invocation does nothing but the push:
\* no login, no Person or Project call, no review, no prompt, no output.
C3_BypassOnlyPushes ==
    EnteredBypass =>
        /\ calls \in {<<>>, <<"push">>}
        /\ submitted = <<>>
        /\ prompts = <<>>
        /\ edits = <<>>
        /\ ui_out = <<>>
        /\ pc \in {"start", "done"}
        /\ pc = "done" => Len(pushed) = 1
C3_Witness ==
    /\ EnteredBypass
    /\ pc = "done"
    /\ calls = <<"push">>
    /\ ~Has(config, "kiln.prefix")
    /\ Len(args) > 1

\* the push was invoked and raised / returned
PushRaised == pushed # <<>> /\ pushed[1].outcome.raised
PushReturned == pushed # <<>> /\ ~pushed[1].outcome.raised
Printed(msg) == \E i \in DOMAIN ui_out : ui_out[i].msg = msg

\* C4 (as claimed): after a push that failed, by raising or by returning a
\* status other than 0, the invocation does not go on to create the review.
C4_NoReviewAfterFailedPush ==
    (~EnteredBypass /\ pushed # <<>>
        /\ (pushed[1].outcome.raised \/ pushed[1].outcome.value # 0)) =>
        /\ pc # "review"
        /\ ~Made("Review/Create")
\* C4 (amended): a push that raises ends the invocation with the push's own
\* error and no Review/Create call; a push that returns is followed by the
\* review creation whatever status it returned.
C4_NoReviewAfterRaisingPush ==
    ~EnteredBypass =>
        /\ PushRaised =>
            /\ pc = "done"
            /\ result = Raise("PushError", "push", <<>>)
            /\ submitted = <<>>
            /\ ~Made("Review/Create")
        /\ PushReturned => (pc = "review" \/ Made("Review/Create"))
C4_Witness ==
    /\ ~EnteredBypass
    /\ PushRaised
    /\ calls = <<"Auth/Login", "Person", "Project", "push">>

\* C5 (as claimed): whenever the answer of Review/Create has no ixReview, the
\* empty and the null answer included, the invocation prints FAILED with the
\* raw answer, returns 0, reports no review location and pushed exactly once.
C5_MissingIdIsReportedFailure ==
    (pc = "done" /\ review_status # <<>> /\ "ixReview" \notin review_status[1].keys) =>
        /\ result = Return(0)
        /\ ui_out # <<>>
        /\ ui_out[Len(ui_out)].msg = "status: FAILED"
        /\ ui_out[Len(ui_out)].val = review_status[1]
        /\ ~Printed("status: review url")
        /\ Len(pushed) = 1

\* the paths on which the orchestrator itself reports a failure and goes on
ReportedFailure == Printed("warn: hgrc instructions") \/ Printed("status: FAILED")
ReviewCreated == review_status # <<>> /\ "ixReview" \in review_status[1].keys

\* C6 (as claimed): the invocation returns 1 when a review was created and
\* when a bypass push was performed, 0 when it reported a failure itself.
C6_ReturnsOneOnReviewOrBypass ==
    pc = "done" =>
        /\ ReviewCreated => result = Return(1)
        /\ (EnteredBypass /\ pushed # <<>>) => result = Return(1)
        /\ ReportedFailure => result = Return(0)
\* C6 (amended): the invocation returns 1 when a review was created, the
\* wrapped push's own return value in bypass mode (its error if it raised),
\* and 0 when it reported a failure itself.
C6_ReturnValue ==
    pc = "done" =>
        /\ ReviewCreated => result = Return(1)
        /\ (EnteredBypass /\ PushReturned) => result = Return(pushed[1].outcome.value)
        /\ (EnteredBypass /\ PushRaised) => result = Raise("PushError", "push", <<>>)
        /\ ReportedFailure => result = Return(0)
C6_Witness ==
    /\ pc = "done"
    /\ EnteredBypass
    /\ PushReturned
    /\ pushed[1].outcome.value = 0
    /\ result = Return(0)

\* the options lines 251-284 pop before the push
ReviewOptKeys == {"rtitle", "rcomment", "rrev", "rr", "editor"}

\* C7 (as claimed): the wrapped push is handed the positional arguments and
\* the option map exactly as the invocation received them, on both paths.
C7_PushArgsUnchanged ==
    \A i \in DOMAIN pushed :
        pushed[i].args = args /\ pushed[i].opts = opts0
\* C7 (amended): the wrapped push is handed the positional arguments
\* unchanged on both paths; the option map unchanged on the bypass path and,
\* on the review path, the received map without rtitle, rcomment, rrev, rr
\* and editor, every other option as received.
C7_PushArgsPassedThrough ==
    \A i \in DOMAIN pushed :
        /\ pushed[i].args = args
        /\ EnteredBypass => pushed[i].opts = opts0
        /\ ~EnteredBypass =>
              pushed[i].opts = [k \in DOMAIN opts0 \ ReviewOptKeys |-> opts0[k]]
C7_Witness ==
    /\ ~EnteredBypass
    /\ Len(pushed) = 1
    /\ Truthy(opts0, "rtitle")
    /\ DOMAIN pushed[1].opts = {"force", "reditor"}

\* C8 (as claimed): a non-bypass invocation that reaches the push or the
\* review creation carries a non-empty changeset list, from --rrev or from
\* the outgoing set alike.
C8_ChangesetsNonEmpty ==
    ~EnteredBypass =>
        /\ pushed # <<>> => (changesets # <<>> /\ review_params["revs"] # <<>>)
        /\ \A i \in DOMAIN submitted : submitted[i]["revs"] # <<>>

\* the normalised reviewer names of this invocation
Tokens == NormalizeReviewers(people)
\* every name has exactly one matching person record
UniqueMatches == \A t \in Tokens : Len(CandidateReviewers(t, all_people)) = 1
\* the step in which _get_reviewers returns
Returning == pc = "resolve" /\ pc' \in {"edit", "project"}

\* C9 (as claimed): with exactly one match per name, _get_reviewers returns
\* as many records as there are distinct normalised names.
C9_SizeEqualsTokenCount ==
    [][(Returning /\ UniqueMatches) => Len(reviewers') = Cardinality(Tokens)]_vars
\* C9 (amended): with exactly one match per name, _get_reviewers returns as
\* many records as the names match distinct persons (distinct sEmail), which
\* is at most the number of distinct normalised names.
C9_SizeEqualsMatchedPersons ==
    [][(Returning /\ UniqueMatches) =>
          /\ Len(reviewers') =
                 Cardinality({CandidateReviewers(t, all_people)[1].sEmail : t \in Tokens})
          /\ Len(reviewers') <= Cardinality(Tokens)]_vars
C9_Witness ==
    /\ pc = "project"
    /\ prompts = <<>>
    /\ Cardinality(Tokens) = 2
    /\ Len(reviewers) = 1

\* the names no person record matches
ZeroMatch == {t \in Tokens : CandidateReviewers(t, all_people) = <<>>}

\* C10: while a name matches nobody, the resolution can only go on with
\* other names or abort naming such a name: it returns no records, and
\* neither a push nor a review request is made.
C10_ZeroMatchAborts ==
    [][(pc = "resolve" /\ ZeroMatch # {}) =>
          /\ pushed' = <<>>
          /\ submitted' = <<>>
          /\ reviewers' = <<>>
          /\ ~Has(review_params', "ixReviewers")
          /\ \/ pc' = "resolve"
             \/ /\ pc' = "done"
                /\ result'.kind = "raise"
                /\ result'.exc = "Abort"
                /\ result'.msg = "No reviewer found matching"
                /\ result'.arg \in ZeroMatch]_vars
C10_Witness ==
    /\ pc = "done"
    /\ result.msg = "No reviewer found matching"
    /\ result.arg = s_zed
    /\ DOMAIN disambiguated_reviewers # {}
    /\ pushed = <<>>

\* how often the user was asked about the name t
TimesPrompted(t) == Cardinality({i \in DOMAIN prompts : prompts[i] = t})
\* the names the resolution has dealt with so far
Resolved == Tokens \ todo

\* C11: during the resolution the user is asked about normalised names only;
\* never about a name not yet dealt with nor about one with a single match;
\* exactly once about each name dealt with that has two or more matches, so
\* exactly once about each such name by the time the resolution returns; and
\* the record accepted for a name is one of that name's matches.
C11_PromptOncePerAmbiguousName ==
    pc = "resolve" =>
        /\ \A i \in DOMAIN prompts : prompts[i] \in Tokens
        /\ \A t \in todo : TimesPrompted(t) = 0
        /\ \A t \in Resolved :
            LET candidate_reviewers == CandidateReviewers(t, all_people)
            IN  /\ TimesPrompted(t) = (IF Len(candidate_reviewers) > 1 THEN 1 ELSE 0)
                /\ \E i \in DOMAIN candidate_reviewers :
                       /\ Has(disambiguated_reviewers, candidate_reviewers[i].sEmail)
                       /\ disambiguated_reviewers[candidate_reviewers[i].sEmail]
                              = candidate_reviewers[i]
        /\ \A e \in DOMAIN disambiguated_reviewers :
               \E t \in Resolved, i \in 1..Len(all_people) :
                   /\ disambiguated_reviewers[e] = all_people[i]
                   /\ Matches(t, all_people[i])
C11_Witness ==
    /\ pc = "resolve"
    /\ todo = {}
    /\ Cardinality(Tokens) = 2
    /\ prompts = <<s_tom>>
    /\ Len(CandidateReviewers(s_tom, all_people)) = 2
    /\ DOMAIN disambiguated_reviewers = {p_tomas.sEmail, p_dick.sEmail}

\* C12 (as claimed): the accepted records hold at most one person per email
\* address, addresses compared without regard to case, both while the
\* resolution runs and in what it returns.
C12_OnePersonPerEmailIgnoringCase ==
    /\ \A e1, e2 \in DOMAIN disambiguated_reviewers :
           Lower(e1) = Lower(e2) => e1 = e2
    /\ \A i, j \in DOMAIN reviewers :
           Lower(reviewers[i].sEmail) = Lower(reviewers[j].sEmail) => i = j

\* the lower-cased URLs configured under aliases equal to name, case ignored
UrlsOfAlias(name) ==
    {Lower(paths[i][2]) : i \in {j \in DOMAIN paths : Lower(paths[j][1]) = Lower(name)}}
\* what line 297 got is None, or a URL configured under the alias name
ResolvedTo(name) ==
    IF UrlsOfAlias(name) = {}
    THEN repo_url_to_push_to[1] = <<>>
    ELSE /\ repo_url_to_push_to[1] # <<>>
         /\ repo_url_to_push_to[1][1] \in UrlsOfAlias(name)

\* the destination is right after the step of line 297
AliasResolved ==
    IF dest # <<>> /\ dest[1] # <<>>
    THEN ResolvedTo(dest[1])
    ELSE IF UrlsOfAlias(s_defaultPush) # {} THEN ResolvedTo(s_defaultPush)
    ELSE IF UrlsOfAlias(s_default) # {} THEN ResolvedTo(s_default)
    ELSE repo_url_to_push_to[1] = <<>>

\* C13: the step that resolves the destination gives, with a (non-empty)
\* destination, the lower-cased URL of a configured alias equal to it
\* case-insensitively, or None when there is no such alias, whatever the
\* defaults are; with no destination it gives the URL of default-push if
\* configured, else of default if configured, else None.
C13_AliasResolution ==
    [][pc = "project" => (repo_url_to_push_to' # <<>> /\ AliasResolved')]_vars
C13_Witness ==
    /\ pc = "push"
    /\ dest = <<s_kiln>>
    /\ UrlsOfAlias(s_default) # {}
    /\ \E i \in DOMAIN paths : paths[i][1] = s_Kiln
    /\ \A i \in DOMAIN paths : paths[i][1] # s_kiln
    /\ repo_url_to_push_to = <<<<Lower(RepoUrl(s_prefix, repo_B))>>>>

\* C14 (as claimed): a non-bypass invocation with any of kiln.prefix,
\* kiln.username, kiln.password missing makes no remote call, the login
\* included, and no push.
C14_MissingSettingStops ==
    (~EnteredBypass /\ DOMAIN config # ConfigKeys) =>
        /\ calls = <<>>
        /\ pushed = <<>>

\* C15 (as claimed): a non-bypass invocation with --reditor set that gets
\* as far as the push has opened the editor once, on the comment given with
\* --rcomment or else on the changesets' descriptions joined by newlines,
\* and its request's description is what the editor gave back.
C15_ReditorOpensEditor ==
    (~EnteredBypass /\ TruthyFlag(opts0, "reditor") /\ pc \in {"push", "review"}) =>
        /\ Len(edits) = 1
        /\ edits[1] = (IF Truthy(opts0, "rcomment") THEN opts0["rcomment"]
                       ELSE JoinLines([i \in DOMAIN changesets |->
                                          DescriptionOf(changesets[i])]))
        /\ Has(review_params, "sDescription")
        /\ review_params["sDescription"] \in EditedTexts(edits[1])

\* C16: an invocation whose --rr list is empty (so not the bypass) never
\* invokes the push and never posts a review request, and never gets to
\* resolve reviewers; it ends in an error: once the changesets are selected,
\* in Abort 'Must specify at least one reviewer via -rr.', and before that
\* in whichever earlier failure came first (the hgrc instructions, too many
\* destinations, the login, no changesets).
C16_ReviewersRequired ==
    ~Truthy(opts0, "rr") =>
        /\ pushed = <<>>
        /\ submitted = <<>>
        /\ ~Made("push") /\ ~Made("Person") /\ ~Made("Review/Create")
        /\ pc \in {"start", "login", "revs", "done"}
        /\ pc = "done" =>
            /\ \/ result.kind = "raise" /\ result.exc = "Abort"
               \/ result = Return(0) /\ Printed("warn: hgrc instructions")
            /\ Has(review_params, "revs") =>
                   result = Raise("Abort", "Must specify at least one reviewer via -rr.", <<>>)
C16_Witness ==
    /\ pc = "done"
    /\ opts0["rr"] = <<>>
    /\ calls = <<"Auth/Login">>
    /\ changesets # <<>>
    /\ result.msg = "Must specify at least one reviewer via -rr."

\* the person records whose lower-cased name or email contains the name t
Containing(t) ==
    {p \in Range(all_people) :
        \/ \E i \in 0..(Len(p.sName) - Len(t)) :
               SubSeq(Lower(p.sName), i + 1, i + Len(t)) = t
        \/ \E i \in 0..(Len(p.sEmail) - Len(t)) :
               SubSeq(Lower(p.sEmail), i + 1, i + Len(t)) = t}
\* the addresses offered to the user in the last Len(candidates) lines shown
Offered(n) ==
    {ui_out'[k].val[2] : k \in (Len(ui_out') - n + 1)..Len(ui_out')}

\* C17: every step of the resolution deals with one normalised name t, and
\* does so according to the set of person records whose lower-cased name or
\* email contains t: it aborts naming t exactly when the set is empty,
\* accepts the one record without asking when the set has one record, and
\* when it has several asks once, offering exactly the records of the set
\* and accepting one of them; the names are the comma-separated fields,
\* trimmed and lower-cased, so 'tom,' gives 'tom' and the empty name, and
\* the empty name has the whole directory as its set.
C17_CandidatesAreSubstringMatches ==
    [][(pc = "resolve" /\ todo # {}) =>
          /\ people = <<s_tomComma>> => Tokens = {s_tom, <<>>}
          /\ people = <<s_Dick, s_dickAt>> =>
                 Tokens = {<<"d", "i", "c", "k">>, <<"d", "i", "c", "k", "@">>}
          /\ Containing(<<>>) = Range(all_people)
          /\ \E t \in todo :
              LET accepted == {disambiguated_reviewers'[e] :
                                   e \in DOMAIN disambiguated_reviewers'}
                                  \ {disambiguated_reviewers[e] :
                                         e \in DOMAIN disambiguated_reviewers}
              IN  \/ /\ Containing(t) = {}
                     /\ pc' = "done"
                     /\ result' = Raise("Abort", "No reviewer found matching", t)
                  \/ /\ Cardinality(Containing(t)) = 1
                     /\ todo' = todo \ {t}
                     /\ prompts' = prompts
                     /\ ui_out' = ui_out
                     /\ \A p \in Containing(t) :
                            /\ Has(disambiguated_reviewers', p.sEmail)
                            /\ disambiguated_reviewers'[p.sEmail] = p
                     /\ accepted \subseteq Containing(t)
                  \/ /\ Cardinality(Containing(t)) > 1
                     /\ todo' = todo \ {t}
                     /\ prompts' = Append(prompts, t)
                     /\ Len(ui_out') = Len(ui_out) + 1 + Cardinality(Containing(t))
                     /\ Offered(Cardinality(Containing(t)))
                            = {p.sEmail : p \in Containing(t)}
                     /\ \E p \in Containing(t) :
                            /\ Has(disambiguated_reviewers', p.sEmail)
                            /\ disambiguated_reviewers'[p.sEmail] = p
                     /\ accepted \subseteq Containing(t)]_vars
C17_Witness ==
    /\ pc = "resolve"
    /\ people = <<s_tomComma>>
    /\ todo = {}
    /\ prompts = << <<>>, s_tom >>
    /\ Len(all_people) = 3
    /\ Len(ui_out) = 4 + 3
    /\ DOMAIN disambiguated_reviewers = {p_tomas.sEmail}

\* how often the call was made
Times(call) == Cardinality({i \in DOMAIN calls : calls[i] = call})

\* C18: in one invocation each of the login, the Person fetch, the Project
\* fetch, the push and Review/Create is made at most once, whatever the
\* number of reviewer names and whatever Review/Create answers; and a
\* non-bypass invocation that has ended after its push returned has made
\* exactly one Review/Create call.
C18_NoCallRepeated ==
    /\ \A call \in {"Auth/Login", "Person", "Project", "push", "Review/Create"} :
           Times(call) <= 1
    /\ Len(calls) <= 5
    /\ Len(pushed) <= 1
    /\ Len(submitted) <= 1
    /\ (~EnteredBypass /\ PushReturned /\ pc = "done") => Times("Review/Create") = 1
C18_Witness ==
    /\ pc = "done"
    /\ Cardinality(Tokens) = 2
    /\ calls = <<"Auth/Login", "Person", "Project", "push", "Review/Create">>
    /\ result.kind = "raise"
    /\ result.msg = "Error communicating with kilnhg: Review/Create"

\* the repositories of the hierarchy fetched, in traversal order
Visited == ReposInOrder(all_projects[1])
\* the canonical URL of the i-th of them
UrlOf(i) ==
    config["kiln.prefix"] \o s_code \o Visited[i].sProjectSlug \o s_slash
        \o Visited[i].sGroupSlug \o s_slash \o Visited[i].sSlug
\* the target URL of the lookup
Target == repo_url_to_push_to[1][1]
\* the entries whose canonical URL equals the target, case ignored
MatchingTarget == {i \in DOMAIN Visited : Lower(UrlOf(i)) = Lower(Target)}
NoRepositoryFound == Raise("Abort", "No repository found matching", <<Target>>)

\* the lookup's outcome is the first matching entry's ixRepo, or the Abort
FirstMatchFound ==
    LET matching == MatchingTarget
        found == Has(review_params, "ixRepo")
    IN  /\ (result = NoRepositoryFound) <=> (matching = {})
        /\ found <=> (matching # {})
        /\ found =>
            \E i \in matching :
                /\ \A j \in matching : i <= j
                /\ review_params["ixRepo"] = Visited[i].ixRepo
        /\ \A i \in DOMAIN Visited :
               Target = Lower(UrlOf(i)) =>
                   /\ found
                   /\ matching = {i} => review_params["ixRepo"] = Visited[i].ixRepo

RequestAsGathered(request) ==
    /\ DOMAIN request \subseteq
           {"token", "revs", "ixReviewers", "ixRepo", "sTitle", "sDescription"}
    /\ {"token", "revs", "ixReviewers", "ixRepo"} \subseteq DOMAIN request
    /\ request["token"] = auth_token[1]
    /\ request["revs"] = changesets
    /\ \E revlist \in RevLists :
           request["revs"] = [k \in DOMAIN revlist |-> SubSeq(NodeHex(revlist[k]), 1, 12)]
    /\ request["ixReviewers"] = [i \in DOMAIN reviewers |-> reviewers[i].ixPerson]
    /\ \E i \in DOMAIN Visited :
           /\ Lower(UrlOf(i)) = Lower(Target)
           /\ request["ixRepo"] = Visited[i].ixRepo
    /\ Has(request, "sTitle") <=> Truthy(opts0, "rtitle")
    /\ Has(request, "sTitle") => request["sTitle"] = opts0["rtitle"]
    /\ IF edits = <<>>
       THEN /\ Has(request, "sDescription") <=> Truthy(opts0, "rcomment")
            /\ Has(request, "sDescription") => request["sDescription"] = opts0["rcomment"]
       ELSE /\ Has(request, "sDescription")
            /\ request["sDescription"] \in EditedTexts(edits[1])

\* C20: the push step leaves the request as it was, and the request posted
\* to Review/Create is the one request of the invocation, holding what was
\* gathered before the push: the login's token, the selected changesets'
\* 12-character hashes in selection order, one ixPerson per resolved
\* person, the ixRepo looked up, and a title and a description only when
\* given non-empty (the description being the editor's text when the editor
\* was opened).
C20_RequestIsWhatWasGathered ==
    [][/\ pc = "push" => (review_params' = review_params /\ RequestAsGathered(review_params))
       /\ pc = "review" =>
              /\ submitted' = <<review_params>>
              /\ RequestAsGathered(submitted'[1])]_vars
C20_Witness ==
    /\ pc = "done"
    /\ PushReturned
    /\ Len(submitted) = 1
    /\ Len(submitted[1]["revs"]) = 2
    /\ Len(submitted[1]["revs"][1]) = 12
    /\ Len(submitted[1]["ixReviewers"]) = 2
    /\ submitted[1]["ixRepo"] = repo_A.ixRepo
    /\ submitted[1]["token"] = s_token
    /\ DOMAIN submitted[1] = {"token", "revs", "ixReviewers", "ixRepo"}

=============================================================================
